---- MODULE Spec2Model ----
(***************************************************************************)
(* Model of ivi/dummy/dummyScope.py: the simulation-only oscilloscope      *)
(* driver of python-ivi.  The state is one dummyScope object: its channel  *)
(* labels, its measurement callback registry, its identity strings and     *)
(* the record of the most recent call (result, error, transport calls).    *)
(***************************************************************************)
EXTENDS Integers, Naturals, Sequences, FiniteSets, TLC

VARIABLES
    phase,            \* "new" before dummyScope(...) ran, "constructed" after
    simulate,         \* self._driver_operation_simulate
    bound,            \* attribute name -> class whose definition the object uses
    channel_count,    \* self._channel_count
    channel_name,     \* self._channel_name
    channel_label,    \* self._channel_label
    callbacks,        \* self._callbacks
    identity,         \* self._identity_instrument_{manufacturer,model,firmware_revision}
    lastOp,           \* the most recent call: arguments, result, error, effects
    prevGet,          \* the call before lastOp, kept when both are identity getters
    registered,       \* history: producer last passed to a returning set_callback
    written           \* history: value last passed to a returning _set_channel_label

vars == <<phase, simulate, bound, channel_count, channel_name, channel_label,
          callbacks, identity, lastOp, prevGet, registered, written>>

-----------------------------------------------------------------------------
(* Bounds of the model                                                      *)

\* producers handed to set_callback return 1.0 .. MaxVal.0
MaxVal == 1
\* magnitude of the integers handed to _set_channel_label as label value
MaxLabelInt == 12

-----------------------------------------------------------------------------
(* Python values.  A string is a sequence of characters.                    *)

PyStr(s) == [type |-> "str", int |-> 0, str |-> s]
PyInt(n) == [type |-> "int", int |-> n, str |-> <<>>]
PyFloat(n) == [type |-> "float", int |-> n, str |-> <<>>]
PyTuple(n, s) == [type |-> "tuple", int |-> n, str |-> s]
None == [type |-> "NoneType", int |-> 0, str |-> <<>>]

Digits == <<"0", "1", "2", "3", "4", "5", "6", "7", "8", "9">>

RECURSIVE NatToStr(_)
NatToStr(n) ==
    IF n < 10 THEN <<Digits[n + 1]>>
    ELSE NatToStr(n \div 10) \o <<Digits[(n % 10) + 1]>>

\* the builtin str() on the values the model passes to it
str(v) ==
    CASE v.type = "str" -> v
      [] v.type = "int" ->
            PyStr(IF v.int < 0 THEN <<"-">> \o NatToStr(0 - v.int) ELSE NatToStr(v.int))
      [] v.type = "NoneType" -> PyStr(<<"N", "o", "n", "e">>)
      [] OTHER -> PyStr(<<"?">>)

\* id[:n]
Slice(s, n) == SubSeq(s, 1, IF n < Len(s) THEN n ELSE Len(s))

-----------------------------------------------------------------------------
(* Constants of dummyScope.__init__ and _load_id_string                     *)

instrument_id == <<"d", "u", "m", "m", "y", "S", "c", "o", "p", "e">>
analog_channel_count == 2
digital_channel_count == 0
init_channel_count == 2
cache == FALSE

IdManufacturer == <<"D", "u", "m", "m", "y">>
IdModel == <<"d", "u", "m", "m", "y", "S", "c", "o", "p", "e", "1", "2", "3", "4">>
IdFirmware == <<"0", ".", "1">>

\* scope.MeasurementFunction, the closed enumeration (a sample of its members)
MeasurementFunction == {"frequency", "period"}

\* function ids a caller may pass
FunctionIds == MeasurementFunction \cup {"bogus"}

-----------------------------------------------------------------------------
(* Inputs the callers draw from                                             *)

\* a callable returning a constant, or an object that is not callable
Producer(v) == [callable |-> TRUE, val |-> v]
NotCallable == [callable |-> FALSE, val |-> None]
Producers == {Producer(PyFloat(n)) : n \in 1..MaxVal}
CallbackArgs == Producers \cup {NotCallable}

LabelArgs == {PyStr(<<"A">>), PyInt(0 - MaxLabelInt)}

\* names given to the channels by scope.Base._init_channels
BaseChannelNames(n) == [i \in 1..n |-> <<"C", "H", Digits[i + 1]>>]

ChannelKeys ==
    {PyInt(n) : n \in (0 - 1)..init_channel_count}
      \cup {PyStr(BaseChannelNames(init_channel_count)[i]) : i \in 1..init_channel_count}
      \cup {PyStr(<<"C", "H", "9">>)}

-----------------------------------------------------------------------------
(* ivi.get_index: a position in [0, len) or a declared name -> the index    *)

IndexOf(l, name) == CHOOSE i \in 1..Len(l) : l[i] = name /\ \A j \in 1..(i - 1) : l[j] # name

get_index(l, i) ==
    IF i.type = "int"
    THEN IF i.int < 0 \/ i.int >= Len(l)
         THEN [err |-> "OutOfRange", index |-> 0]
         ELSE [err |-> "", index |-> i.int]
    ELSE IF i.type = "str" /\ \E j \in 1..Len(l) : l[j] = i.str
         THEN [err |-> "", index |-> IndexOf(l, i.str) - 1]
         ELSE [err |-> "UnknownName", index |-> 0]

IndexErrors == {"OutOfRange", "UnknownName"}

\* self._get_cache_valid(): the validity bit, bypassed when the cache is off.
\* dummyScope never marks an identity attribute valid.
cache_valid == FALSE
_get_cache_valid == cache /\ cache_valid

-----------------------------------------------------------------------------
(* The class statement: dummyScope and its bases, most derived first        *)

Bases == <<"dummyScope", "scpi.common.IdnCommand", "scpi.common.Reset",
           "scpi.common.Memory", "scpi.common.SystemSetup", "scope.Base",
           "scope.WaveformMeasurement", "ivi.Driver">>

IdentityGetters == {"_get_identity_instrument_manufacturer",
                    "_get_identity_instrument_model",
                    "_get_identity_instrument_firmware_revision"}

UtilityOps == {"_utility_disable", "_utility_error_query", "_utility_lock_object",
               "_utility_reset", "_utility_reset_with_defaults",
               "_utility_self_test", "_utility_unlock_object"}

\* attributes defined in the body of class dummyScope
dummyScopeDefines ==
    {"__init__", "initialize", "_init_channels", "_init_callbacks", "set_callback",
     "_load_id_string", "_get_channel_label", "_set_channel_label",
     "_measurement_fetch_waveform_measurement"}
      \cup IdentityGetters \cup UtilityOps

\* attributes supplied by the base capability modules
BaseDefines(c) ==
    CASE c = "scpi.common.IdnCommand" -> {"_load_id_string"} \cup IdentityGetters
      [] c = "scpi.common.Reset" -> {"_utility_reset"}
      [] c = "scpi.common.Memory" -> {"_memory_save", "_memory_recall"}
      [] c = "scpi.common.SystemSetup" -> {"_system_fetch_setup", "_system_load_setup"}
      [] c = "scope.Base" -> {"__init__", "_init_channels"}
      [] c = "scope.WaveformMeasurement" ->
            {"__init__", "_measurement_fetch_waveform_measurement"}
      [] c = "ivi.Driver" -> {"__init__", "initialize"} \cup IdentityGetters \cup UtilityOps
      [] OTHER -> {}

Defines(c) == IF c = "dummyScope" THEN dummyScopeDefines ELSE BaseDefines(c)

AttributeNames == UNION {Defines(Bases[i]) : i \in 1..Len(Bases)}

\* attribute lookup preferring the last class of the base list
Resolve_last(n) ==
    Bases[CHOOSE i \in 1..Len(Bases) :
              n \in Defines(Bases[i])
                /\ \A j \in (i + 1)..Len(Bases) : n \notin Defines(Bases[j])]

\* attribute lookup on the instance: the first class of the base list defining it
Resolve(n) ==
    Bases[CHOOSE i \in 1..Len(Bases) :
              n \in Defines(Bases[i]) /\ \A j \in 1..(i - 1) : n \notin Defines(Bases[j])]

\* names for which more than one class of the base list supplies a definition
Redefined == {n \in AttributeNames :
                 Cardinality({i \in 1..Len(Bases) : n \in Defines(Bases[i])}) > 1}

-----------------------------------------------------------------------------
(* The methods of dummyScope, as functions of the fields they read          *)

\* the default producer of _init_callbacks: lambda: 0.0
DefaultProducer == Producer(PyFloat(0))

\* calling a producer
Invoke(cb) == cb.val

_init_channels == [i \in 1..analog_channel_count |-> PyStr(<<>>)]

_init_callbacks == [f \in MeasurementFunction |-> DefaultProducer]

\* set_callback storing the producer under every key of the registry
set_callback_everywhere(cbs, measurement_function, callback) ==
    IF ~callback.callable
    THEN [err |-> "AssertionError", callbacks |-> cbs]
    ELSE [err |-> "",
          callbacks |-> [g \in DOMAIN cbs \cup {measurement_function} |-> callback]]

\* set_callback without its assertion
set_callback_unchecked(cbs, measurement_function, callback) ==
    [err |-> "",
     callbacks |-> [g \in DOMAIN cbs \cup {measurement_function} |->
                       IF g = measurement_function THEN callback ELSE cbs[g]]]

set_callback(cbs, measurement_function, callback) ==
    IF ~callback.callable
    THEN [err |-> "AssertionError", callbacks |-> cbs]
    ELSE [err |-> "",
          callbacks |-> [g \in DOMAIN cbs \cup {measurement_function} |->
                            IF g = measurement_function THEN callback ELSE cbs[g]]]

_load_id_string ==
    [manufacturer |-> IdManufacturer, model |-> IdModel, firmware_revision |-> IdFirmware]

_get_identity_instrument_manufacturer(id) ==
    IF _get_cache_valid
    THEN [identity |-> id, ret |-> PyStr(id.manufacturer), loads |-> 0]
    ELSE [identity |-> _load_id_string,
          ret |-> PyStr(_load_id_string.manufacturer), loads |-> 1]

\* the getter reading the field before loading it
_get_identity_instrument_model_stale(id) ==
    [identity |-> _load_id_string, ret |-> PyStr(id.model), loads |-> 1]

\* the getter loading the id string only while the field is empty
_get_identity_instrument_model_once(id) ==
    IF id.model # <<>>
    THEN [identity |-> id, ret |-> PyStr(id.model), loads |-> 0]
    ELSE [identity |-> _load_id_string,
          ret |-> PyStr(_load_id_string.model), loads |-> 1]

_get_identity_instrument_model(id) ==
    IF _get_cache_valid
    THEN [identity |-> id, ret |-> PyStr(id.model), loads |-> 0]
    ELSE [identity |-> _load_id_string,
          ret |-> PyStr(_load_id_string.model), loads |-> 1]

_get_identity_instrument_firmware_revision(id) ==
    IF _get_cache_valid
    THEN [identity |-> id, ret |-> PyStr(id.firmware_revision), loads |-> 0]
    ELSE [identity |-> _load_id_string,
          ret |-> PyStr(_load_id_string.firmware_revision), loads |-> 1]

\* the utility operations: result and transport calls
_utility_disable == [ret |-> None, calls |-> <<>>]
_utility_error_query ==
    [ret |-> PyTuple(0, <<"N", "o", " ", "e", "r", "r", "o", "r">>), calls |-> <<>>]
_utility_lock_object == [ret |-> None, calls |-> <<>>]
_utility_reset == [ret |-> None, calls |-> <<>>]
_utility_reset_with_defaults == _utility_reset
_utility_self_test ==
    [ret |-> PyTuple(0, <<"S", "e", "l", "f", " ", "t", "e", "s", "t", " ",
                          "p", "a", "s", "s", "e", "d">>),
     calls |-> <<>>]
_utility_unlock_object == [ret |-> None, calls |-> <<>>]

\* ivi.Driver.initialize: opens the I/O session unless simulating
Driver_initialize(sim) == IF sim THEN <<>> ELSE <<"open">>

\* self._clear()
_clear == <<"clear">>

\* initialize clearing the interface whatever the mode
initialize_always_clear(sim, id, id_query, reset) ==
    LET check == id_query /\ ~sim
        got == _get_identity_instrument_model(id)
        mismatch == check /\ Slice(got.ret.str, Len(instrument_id)) # instrument_id
    IN  [channel_count |-> analog_channel_count + digital_channel_count,
         identity |-> IF check THEN got.identity ELSE id,
         loads |-> IF check THEN got.loads ELSE 0,
         calls |-> Driver_initialize(sim) \o _clear
                     \o (IF reset /\ ~mismatch THEN _utility_reset.calls ELSE <<>>),
         err |-> IF mismatch THEN "Exception" ELSE ""]

initialize(sim, id, id_query, reset) ==
    LET opened == Driver_initialize(sim)
        cleared == IF ~sim THEN _clear ELSE <<>>
        check == id_query /\ ~sim
        got == _get_identity_instrument_model(id)
        id_check == instrument_id
        id_short == Slice(got.ret.str, Len(id_check))
        mismatch == check /\ id_short # id_check
    IN  [channel_count |-> analog_channel_count + digital_channel_count,
         identity |-> IF check THEN got.identity ELSE id,
         loads |-> IF check THEN got.loads ELSE 0,
         calls |-> opened \o cleared
                     \o (IF reset /\ ~mismatch THEN _utility_reset.calls ELSE <<>>),
         err |-> IF mismatch THEN "Exception" ELSE ""]

_get_channel_label(names, labels, index) ==
    LET r == get_index(names, index)
    IN  IF r.err # "" THEN [err |-> r.err, ret |-> None]
        ELSE [err |-> "", ret |-> labels[r.index + 1]]

\* the setter indexing the list with an integer key as given: a negative
\* position counts from the end of the list
_set_channel_label_raw_index(names, labels, index, value) ==
    LET v == str(value)
        r == get_index(names, index)
    IN  IF index.type = "int" /\ 0 - Len(labels) <= index.int /\ index.int < Len(labels)
        THEN [err |-> "",
              labels |-> [labels EXCEPT ![((index.int + Len(labels)) % Len(labels)) + 1] = v]]
        ELSE IF r.err # "" THEN [err |-> r.err, labels |-> labels]
        ELSE [err |-> "", labels |-> [labels EXCEPT ![r.index + 1] = v]]

\* the setter storing the value without converting it
_set_channel_label_no_str(names, labels, index, value) ==
    LET r == get_index(names, index)
    IN  IF r.err # "" THEN [err |-> r.err, labels |-> labels]
        ELSE [err |-> "", labels |-> [labels EXCEPT ![r.index + 1] = value]]

_set_channel_label(names, labels, index, value) ==
    LET v == str(value)
        r == get_index(names, index)
    IN  IF r.err # "" THEN [err |-> r.err, labels |-> labels]
        ELSE [err |-> "", labels |-> [labels EXCEPT ![r.index + 1] = v]]

\* fetch validating the function id before it resolves the channel key
_measurement_fetch_function_first(names, cbs, index, measurement_function) ==
    LET r == get_index(names, index)
    IN  IF measurement_function \notin MeasurementFunction
        THEN [err |-> "ValueNotSupportedException", ret |-> None, invoked |-> <<>>]
        ELSE IF r.err # "" THEN [err |-> r.err, ret |-> None, invoked |-> <<>>]
        ELSE [err |-> "", ret |-> Invoke(cbs[measurement_function]),
              invoked |-> <<measurement_function>>]

_measurement_fetch_waveform_measurement(names, cbs, index, measurement_function) ==
    LET r == get_index(names, index)
    IN  IF r.err # "" THEN [err |-> r.err, ret |-> None, invoked |-> <<>>]
        ELSE IF measurement_function \notin MeasurementFunction
        THEN [err |-> "ValueNotSupportedException", ret |-> None, invoked |-> <<>>]
        ELSE [err |-> "", ret |-> Invoke(cbs[measurement_function]),
              invoked |-> <<measurement_function>>]

\* dummyScope.__init__: never raises; the instance uses, for every attribute,
\* the definition attribute lookup finds
__init__ == [err |-> "", bound |-> [n \in AttributeNames |-> Resolve(n)]]

-----------------------------------------------------------------------------
(* The record of a call                                                     *)

NoKey == None
NoFid == ""
Op(op, key, fid, arg, cb, ret, err, calls, loads, invoked) ==
    [op |-> op, key |-> key, fid |-> fid, arg |-> arg, cb |-> cb, ret |-> ret,
     err |-> err, calls |-> calls, loads |-> loads, invoked |-> invoked]

NoGet == [op |-> "", ret |-> None, loads |-> 0]
Remember ==
    IF lastOp.op \in IdentityGetters /\ lastOp.err = ""
    THEN [op |-> lastOp.op, ret |-> lastOp.ret, loads |-> lastOp.loads]
    ELSE NoGet

Unregistered == NotCallable
Unwritten == None

-----------------------------------------------------------------------------
(* The state machine                                                        *)

Init ==
    /\ phase = "new"
    /\ simulate = FALSE
    /\ bound = <<>>
    /\ channel_count = 0
    /\ channel_name = <<>>
    /\ channel_label = <<>>
    /\ callbacks = <<>>
    /\ identity = [manufacturer |-> <<>>, model |-> <<>>, firmware_revision |-> <<>>]
    /\ lastOp = Op("", NoKey, NoFid, None, NotCallable, None, "", <<>>, 0, <<>>)
    /\ prevGet = NoGet
    /\ registered = [f \in FunctionIds |-> Unregistered]
    /\ written = [i \in 1..analog_channel_count |-> Unwritten]

\* scope = dummyScope(simulate=sim)
Construct ==
    /\ phase = "new"
    /\ \E sim \in BOOLEAN :
        /\ simulate' = sim
        /\ phase' = IF __init__.err = "" THEN "constructed" ELSE "failed"
        /\ bound' = __init__.bound
        /\ channel_count' = init_channel_count
        /\ channel_name' = BaseChannelNames(init_channel_count)
        /\ channel_label' = _init_channels
        /\ callbacks' = _init_callbacks
        /\ lastOp' = Op("__init__", NoKey, NoFid, None, NotCallable, None,
                        __init__.err, <<>>, 0, <<>>)
    /\ prevGet' = NoGet
    /\ UNCHANGED <<identity, registered, written>>

Ready(method) == phase = "constructed" /\ bound[method] = "dummyScope"

Initialize ==
    /\ Ready("initialize")
    /\ \E id_query \in BOOLEAN, reset \in BOOLEAN :
        LET r == initialize(simulate, identity, id_query, reset)
        IN  /\ channel_count' = r.channel_count
            /\ identity' = r.identity
            /\ lastOp' = Op("initialize", NoKey, NoFid,
                            PyTuple(IF id_query THEN 1 ELSE 0,
                                    IF reset THEN <<"r">> ELSE <<>>),
                            NotCallable, None, r.err, r.calls, r.loads, <<>>)
    /\ prevGet' = NoGet
    /\ UNCHANGED <<phase, simulate, bound, channel_name, channel_label, callbacks,
                   registered, written>>

SetCallback ==
    /\ Ready("set_callback")
    /\ \E f \in FunctionIds, cb \in CallbackArgs :
        LET r == set_callback(callbacks, f, cb)
        IN  /\ callbacks' = r.callbacks
            /\ registered' = IF r.err = "" THEN [registered EXCEPT ![f] = cb]
                             ELSE registered
            /\ lastOp' = Op("set_callback", NoKey, f, None, cb, None, r.err,
                            <<>>, 0, <<>>)
    /\ prevGet' = NoGet
    /\ UNCHANGED <<phase, simulate, bound, channel_count, channel_name, channel_label,
                   identity, written>>

GetManufacturer ==
    /\ Ready("_get_identity_instrument_manufacturer")
    /\ LET r == _get_identity_instrument_manufacturer(identity)
       IN  /\ identity' = r.identity
           /\ lastOp' = Op("_get_identity_instrument_manufacturer", NoKey, NoFid, None, NotCallable, r.ret, "",
                           <<>>, r.loads, <<>>)
    /\ prevGet' = Remember
    /\ UNCHANGED <<phase, simulate, bound, channel_count, channel_name, channel_label,
                   callbacks, registered, written>>

GetModel ==
    /\ Ready("_get_identity_instrument_model")
    /\ LET r == _get_identity_instrument_model(identity)
       IN  /\ identity' = r.identity
           /\ lastOp' = Op("_get_identity_instrument_model", NoKey, NoFid, None, NotCallable, r.ret, "",
                           <<>>, r.loads, <<>>)
    /\ prevGet' = Remember
    /\ UNCHANGED <<phase, simulate, bound, channel_count, channel_name, channel_label,
                   callbacks, registered, written>>

GetFirmwareRevision ==
    /\ Ready("_get_identity_instrument_firmware_revision")
    /\ LET r == _get_identity_instrument_firmware_revision(identity)
       IN  /\ identity' = r.identity
           /\ lastOp' = Op("_get_identity_instrument_firmware_revision", NoKey, NoFid, None, NotCallable, r.ret, "",
                           <<>>, r.loads, <<>>)
    /\ prevGet' = Remember
    /\ UNCHANGED <<phase, simulate, bound, channel_count, channel_name, channel_label,
                   callbacks, registered, written>>

Disable ==
    /\ Ready("_utility_disable")
    /\ lastOp' = Op("_utility_disable", NoKey, NoFid, None, NotCallable, _utility_disable.ret, "",
                    _utility_disable.calls, 0, <<>>)
    /\ prevGet' = NoGet
    /\ UNCHANGED <<phase, simulate, bound, channel_count, channel_name, channel_label,
                   callbacks, identity, registered, written>>

ErrorQuery ==
    /\ Ready("_utility_error_query")
    /\ lastOp' = Op("_utility_error_query", NoKey, NoFid, None, NotCallable, _utility_error_query.ret, "",
                    _utility_error_query.calls, 0, <<>>)
    /\ prevGet' = NoGet
    /\ UNCHANGED <<phase, simulate, bound, channel_count, channel_name, channel_label,
                   callbacks, identity, registered, written>>

LockObject ==
    /\ Ready("_utility_lock_object")
    /\ lastOp' = Op("_utility_lock_object", NoKey, NoFid, None, NotCallable, _utility_lock_object.ret, "",
                    _utility_lock_object.calls, 0, <<>>)
    /\ prevGet' = NoGet
    /\ UNCHANGED <<phase, simulate, bound, channel_count, channel_name, channel_label,
                   callbacks, identity, registered, written>>

Reset ==
    /\ Ready("_utility_reset")
    /\ lastOp' = Op("_utility_reset", NoKey, NoFid, None, NotCallable, _utility_reset.ret, "",
                    _utility_reset.calls, 0, <<>>)
    /\ prevGet' = NoGet
    /\ UNCHANGED <<phase, simulate, bound, channel_count, channel_name, channel_label,
                   callbacks, identity, registered, written>>

ResetWithDefaults ==
    /\ Ready("_utility_reset_with_defaults")
    /\ lastOp' = Op("_utility_reset_with_defaults", NoKey, NoFid, None, NotCallable, _utility_reset_with_defaults.ret, "",
                    _utility_reset_with_defaults.calls, 0, <<>>)
    /\ prevGet' = NoGet
    /\ UNCHANGED <<phase, simulate, bound, channel_count, channel_name, channel_label,
                   callbacks, identity, registered, written>>

SelfTest ==
    /\ Ready("_utility_self_test")
    /\ lastOp' = Op("_utility_self_test", NoKey, NoFid, None, NotCallable, _utility_self_test.ret, "",
                    _utility_self_test.calls, 0, <<>>)
    /\ prevGet' = NoGet
    /\ UNCHANGED <<phase, simulate, bound, channel_count, channel_name, channel_label,
                   callbacks, identity, registered, written>>

UnlockObject ==
    /\ Ready("_utility_unlock_object")
    /\ lastOp' = Op("_utility_unlock_object", NoKey, NoFid, None, NotCallable, _utility_unlock_object.ret, "",
                    _utility_unlock_object.calls, 0, <<>>)
    /\ prevGet' = NoGet
    /\ UNCHANGED <<phase, simulate, bound, channel_count, channel_name, channel_label,
                   callbacks, identity, registered, written>>

GetChannelLabel ==
    /\ Ready("_get_channel_label")
    /\ \E k \in ChannelKeys :
        LET r == _get_channel_label(channel_name, channel_label, k)
        IN  lastOp' = Op("_get_channel_label", k, NoFid, None, NotCallable, r.ret,
                         r.err, <<>>, 0, <<>>)
    /\ prevGet' = NoGet
    /\ UNCHANGED <<phase, simulate, bound, channel_count, channel_name, channel_label,
                   callbacks, identity, registered, written>>

SetChannelLabel ==
    /\ Ready("_set_channel_label")
    /\ \E k \in ChannelKeys, v \in LabelArgs :
        LET r == _set_channel_label(channel_name, channel_label, k, v)
            c == get_index(channel_name, k)
        IN  /\ channel_label' = r.labels
            /\ written' = IF r.err = "" THEN [written EXCEPT ![c.index + 1] = v]
                          ELSE written
            /\ lastOp' = Op("_set_channel_label", k, NoFid, v, NotCallable, None,
                            r.err, <<>>, 0, <<>>)
    /\ prevGet' = NoGet
    /\ UNCHANGED <<phase, simulate, bound, channel_count, channel_name, callbacks,
                   identity, registered>>

Fetch ==
    /\ Ready("_measurement_fetch_waveform_measurement")
    /\ \E k \in ChannelKeys, f \in FunctionIds :
        LET r == _measurement_fetch_waveform_measurement(channel_name, callbacks, k, f)
        IN  lastOp' = Op("_measurement_fetch_waveform_measurement", k, f, None,
                         NotCallable, r.ret, r.err, <<>>, 0, r.invoked)
    /\ prevGet' = NoGet
    /\ UNCHANGED <<phase, simulate, bound, channel_count, channel_name, channel_label,
                   callbacks, identity, registered, written>>

Next ==
    \/ Construct
    \/ Initialize
    \/ SetCallback
    \/ GetManufacturer
    \/ GetModel
    \/ GetFirmwareRevision
    \/ Disable
    \/ ErrorQuery
    \/ LockObject
    \/ Reset
    \/ ResetWithDefaults
    \/ SelfTest
    \/ UnlockObject
    \/ GetChannelLabel
    \/ SetChannelLabel
    \/ Fetch

Spec == Init /\ [][Next]_vars

TypeOK ==
    /\ phase \in {"new", "constructed", "failed"}
    /\ simulate \in BOOLEAN
    /\ lastOp.err \in {"", "AssertionError", "Exception", "ValueNotSupportedException"}
                        \cup IndexErrors

-----------------------------------------------------------------------------
(* Vocabulary of the properties                                             *)

Constructed == phase = "constructed"

FetchOp == "_measurement_fetch_waveform_measurement"
LabelOps == {"_get_channel_label", "_set_channel_label"}
TransportCalls == {"clear", "write", "query"}

\* k is a declared name or a position in [0, channel count)
ValidKey(k) ==
    \/ k.type = "int" /\ 0 <= k.int /\ k.int < Len(channel_name)
    \/ k.type = "str" /\ \E i \in 1..Len(channel_name) : channel_name[i] = k.str

\* the slot (1-based) of the channel a valid key names
Slot(k) ==
    IF k.type = "int" THEN k.int + 1
    ELSE CHOOSE i \in 1..Len(channel_name) : channel_name[i] = k.str

NameKey(i) == PyStr(channel_name[i])
PositionKey(i) == PyInt(i - 1)

\* what the producer last registered for f yields, 0.0 when there is none
Expected(f) ==
    IF registered[f] = Unregistered THEN PyFloat(0) ELSE registered[f].val

Fetched(k, f) == _measurement_fetch_waveform_measurement(channel_name, callbacks, k, f)

-----------------------------------------------------------------------------
C2_NameAndPositionInterchangeable ==
    Constructed =>
        /\ \A i \in 1..Len(channel_name) :
              /\ _get_channel_label(channel_name, channel_label, NameKey(i))
                   = [err |-> "", ret |-> channel_label[i]]
              /\ _get_channel_label(channel_name, channel_label, PositionKey(i))
                   = [err |-> "", ret |-> channel_label[i]]
              /\ \A v \in LabelArgs :
                    LET byName == _set_channel_label(channel_name, channel_label,
                                                     NameKey(i), v)
                        byPos == _set_channel_label(channel_name, channel_label,
                                                    PositionKey(i), v)
                    IN  /\ byName = byPos
                        /\ byName.err = ""
                        /\ _get_channel_label(channel_name, byName.labels,
                                              PositionKey(i)).ret = str(v)
                        /\ _get_channel_label(channel_name, byPos.labels,
                                              NameKey(i)).ret = str(v)
                        /\ \A j \in 1..Len(channel_label) :
                              j # i => byName.labels[j] = channel_label[j]
              /\ \A f \in FunctionIds :
                    Fetched(NameKey(i), f) = Fetched(PositionKey(i), f)
        /\ \A k \in ChannelKeys :
              ~ValidKey(k) =>
                  /\ _get_channel_label(channel_name, channel_label, k).err
                        \in IndexErrors
                  /\ \A v \in LabelArgs :
                        LET r == _set_channel_label(channel_name, channel_label, k, v)
                        IN  r.err \in IndexErrors /\ r.labels = channel_label
                  /\ \A f \in FunctionIds : Fetched(k, f).err \in IndexErrors
        /\ (lastOp.op \in LabelOps \cup {FetchOp} /\ ~ValidKey(lastOp.key))
              => lastOp.err \in IndexErrors
        /\ (lastOp.op = "_get_channel_label" /\ ValidKey(lastOp.key))
              => lastOp.err = "" /\ lastOp.ret = channel_label[Slot(lastOp.key)]

C2_Witness ==
    /\ lastOp.op = "_get_channel_label"
    /\ lastOp.key = PyInt(1)
    /\ lastOp.ret = PyStr(<<"A">>)
    /\ written = <<Unwritten, PyStr(<<"A">>)>>
    /\ _get_channel_label(channel_name, channel_label, PyStr(<<"C", "H", "2">>)).ret
          = PyStr(<<"A">>)
    /\ _get_channel_label(channel_name, channel_label, PyInt(0 - 1)).err = "OutOfRange"

(* C3: after the label of a valid channel c is set to v, getting the label  *)
(* of c, with no label write to c in between, returns str(v); neither call  *)
(* issues a transport call, in Simulate and in Live mode.                   *)
C3_LabelRoundTrip ==
    /\ (lastOp.op = "_get_channel_label" /\ ValidKey(lastOp.key)
          /\ written[Slot(lastOp.key)] # Unwritten)
          => lastOp.err = "" /\ lastOp.ret = str(written[Slot(lastOp.key)])
    /\ (lastOp.op = "_set_channel_label" /\ ValidKey(lastOp.key))
          => /\ lastOp.err = ""
             /\ _get_channel_label(channel_name, channel_label, lastOp.key).ret
                   = str(lastOp.arg)
    /\ lastOp.op \in LabelOps => lastOp.calls = <<>>

C3_Witness ==
    /\ ~simulate
    /\ lastOp.op = "_get_channel_label"
    /\ lastOp.key = PyStr(<<"C", "H", "1">>)
    /\ written[1] = PyInt(0 - MaxLabelInt)
    /\ lastOp.ret.type = "str"
    /\ lastOp.ret.str = <<"-">> \o NatToStr(MaxLabelInt)
    /\ Len(lastOp.ret.str) = 3

(* C4: in Simulate mode no operation performs an interface clear, a write   *)
(* or a query on the transport.                                             *)
C4_SimulateNoTransport ==
    simulate => \A i \in 1..Len(lastOp.calls) : lastOp.calls[i] \notin TransportCalls

C4_Witness ==
    /\ simulate
    /\ lastOp.op = "initialize"
    /\ lastOp.arg = PyTuple(1, <<"r">>)
    /\ lastOp.err = ""

(* C5 as stated: two consecutive gets of the same identity attribute return *)
(* identical values and trigger at most one call of _load_id_string between *)
(* them.                                                                    *)
C5_AtMostOneCompute ==
    (lastOp.op \in IdentityGetters /\ prevGet.op = lastOp.op)
        => lastOp.ret = prevGet.ret /\ prevGet.loads + lastOp.loads <= 1

(* C5 (amended): two consecutive gets of the same identity attribute return *)
(* identical values; with the cache disabled each of the two gets calls     *)
(* _load_id_string once, two calls for the pair.                            *)
C5_SameValueOneComputePerGet ==
    (lastOp.op \in IdentityGetters /\ prevGet.op = lastOp.op)
        => /\ lastOp.ret = prevGet.ret
           /\ lastOp.loads = 1
           /\ prevGet.loads = 1

C5_Witness ==
    /\ lastOp.op = "_get_identity_instrument_model"
    /\ prevGet.op = "_get_identity_instrument_model"
    /\ lastOp.ret = PyStr(IdModel)
    /\ prevGet.ret = PyStr(IdModel)
    /\ prevGet.loads + lastOp.loads = 2

(* C6: with cache=False every get of manufacturer, model or firmware        *)
(* revision calls _load_id_string, however many gets preceded it.           *)
C6_EveryGetLoads ==
    lastOp.op \in IdentityGetters
        => /\ lastOp.loads = 1
           /\ identity = _load_id_string
           /\ lastOp.ret.str # <<>>

C6_Witness ==
    /\ lastOp.op = "_get_identity_instrument_firmware_revision"
    /\ prevGet.op = "_get_identity_instrument_manufacturer"
    /\ prevGet.loads = 1
    /\ lastOp.loads = 1
    /\ lastOp.ret = PyStr(<<"0", ".", "1">>)

(* C7: set_callback with a function id outside MeasurementFunction fails    *)
(* with UnknownFunctionError and leaves the registry as it was.             *)
C7_UnknownFunctionRejected ==
    (lastOp.op = "set_callback" /\ lastOp.fid \notin MeasurementFunction
       /\ lastOp.cb.callable)
        => /\ lastOp.err = "UnknownFunctionError"
           /\ DOMAIN callbacks = MeasurementFunction

(* C8: fetch resolves the channel key first and validates the function id   *)
(* second: an invalid key gives the index error whatever the function id, a *)
(* valid key with a function id outside MeasurementFunction gives           *)
(* ValueNotSupportedException; in both cases no producer is invoked and the *)
(* registry and the labels stay as they were.                               *)
C8_FetchErrorsState ==
    Constructed =>
        /\ \A k \in ChannelKeys, f \in FunctionIds :
              /\ ~ValidKey(k)
                    => Fetched(k, f).err \in IndexErrors /\ Fetched(k, f).invoked = <<>>
              /\ (ValidKey(k) /\ f \notin MeasurementFunction)
                    => /\ Fetched(k, f).err = "ValueNotSupportedException"
                       /\ Fetched(k, f).invoked = <<>>
        /\ lastOp.op = FetchOp =>
              /\ ~ValidKey(lastOp.key)
                    => lastOp.err \in IndexErrors /\ lastOp.invoked = <<>>
              /\ (ValidKey(lastOp.key) /\ lastOp.fid \notin MeasurementFunction)
                    => /\ lastOp.err = "ValueNotSupportedException"
                       /\ lastOp.invoked = <<>>
              /\ lastOp.err = "" => lastOp.invoked = <<lastOp.fid>>

C8_FetchErrorsFrame ==
    (lastOp'.op = FetchOp /\ lastOp'.err # "")
        => callbacks' = callbacks /\ channel_label' = channel_label
             /\ registered' = registered /\ written' = written

(* C8: the error results of fetch in every state, and the frame of every    *)
(* failing fetch step.                                                      *)
C8_FetchErrors == []C8_FetchErrorsState /\ [][C8_FetchErrorsFrame]_vars

C8_Witness ==
    /\ lastOp.op = FetchOp
    /\ lastOp.key = PyInt(1)
    /\ lastOp.fid = "bogus"
    /\ lastOp.err = "ValueNotSupportedException"
    /\ "bogus" \in DOMAIN callbacks
    /\ Fetched(PyInt(2), "bogus").err = "OutOfRange"
    /\ Fetched(PyStr(<<"C", "H", "9">>), "frequency").err = "UnknownName"

C10_Totality ==
    Constructed =>
        /\ MeasurementFunction \subseteq DOMAIN callbacks
        /\ \A f \in DOMAIN callbacks : callbacks[f].callable
        /\ Len(channel_label) = Len(channel_name)
        /\ \A k \in ChannelKeys, f \in MeasurementFunction :
              ValidKey(k) => Fetched(k, f).err = ""

C10_Frame ==
    /\ lastOp'.op = "set_callback" =>
          /\ channel_label' = channel_label
          /\ \A g \in DOMAIN callbacks \ {lastOp'.fid} :
                g \in DOMAIN callbacks' /\ callbacks'[g] = callbacks[g]
          /\ DOMAIN callbacks' \subseteq DOMAIN callbacks \cup {lastOp'.fid}
    /\ lastOp'.op = "_set_channel_label" =>
          /\ callbacks' = callbacks
          /\ Len(channel_label') = Len(channel_label)
          /\ \A j \in 1..Len(channel_label) :
                (~ValidKey(lastOp'.key) \/ j # Slot(lastOp'.key))
                    => channel_label'[j] = channel_label[j]
    /\ lastOp'.op \in {"_get_channel_label", FetchOp} =>
          callbacks' = callbacks /\ channel_label' = channel_label

(* C10: totality of the registry in every state, and the frame of every     *)
(* set_callback, label set, label get and fetch step.                       *)
C10_FrameAndTotality == []C10_Totality /\ [][C10_Frame]_vars

C10_Witness ==
    /\ lastOp.op = "set_callback"
    /\ lastOp.fid = "period"
    /\ lastOp.err = ""
    /\ callbacks["period"] = Producer(PyFloat(1))
    /\ callbacks["frequency"] = DefaultProducer
    /\ channel_label = <<PyStr(<<"A">>), PyStr(<<"-">> \o NatToStr(MaxLabelInt))>>

====
